---- MODULE Spec2Model ----
(***************************************************************************)
(* Persistent actor identity and recovery (kameo-persistence).             *)
(*                                                                         *)
(* One actor type (the example's SubActor: its Args and its Snapshot are   *)
(* the actor struct itself), its per-type registry, the file storage       *)
(* backend, and the default methods of trait PersistentActor, run by a     *)
(* small set of concurrent tasks.  A step of a task is one lock-protected  *)
(* registry access, one storage access, or one actor construction.         *)
(***************************************************************************)
EXTENDS Integers, Sequences, FiniteSets, TLC

\* ---------------------------------------------------------------- bounds
MaxActors == 2      \* actor ids the runtime hands out
MaxTasks == 2       \* concurrent callers
MaxCalls == 3       \* public calls started in one behaviour
MaxLen == 1         \* length of the actor's data string

\* ---------------------------------------------------------------- domains
Handles == 1..MaxActors
Tasks == 1..MaxTasks
NoHandle == 0

\* Persistence keys (Url): a file:// locator and one of another scheme.
FileKey == 1
HttpKey == 2
Keys == {FileKey, HttpKey}
NoKey == 0
scheme(k) == IF k = HttpKey THEN "http" ELSE "file"
FileKeys == {k \in Keys : scheme(k) = "file"}

\* SubActor { data: String }: the string is a sequence of one-byte chars.
Char == 1
RECURSIVE StrsUpTo(_)
StrsUpTo(n) == IF n = 0 THEN {<<>>}
               ELSE LET S == StrsUpTo(n - 1)
                    IN S \cup {Append(s, Char) : s \in {x \in S : Len(x) = n - 1}}
Data == StrsUpTo(MaxLen)

VARIABLES
    registry,     \* SUB_ACTOR_REGISTRY: the BiHashMap<Url, WeakActorRef>
    poisoned,     \* the registry RwLock is poisoned
    fs,           \* the file system under each file key's path
    nextId,       \* the runtime's next actor id
    state,        \* state[h]: the data of actor h
    spawnedFor,   \* spawnedFor[h]: the key spawn_persistent constructed h for
    ext,          \* actors the application holds a strong ActorRef of
    task,         \* task[t]: the call task t is running, and its locals
    last,         \* the call that returned last, and what it returned
    calls,        \* public calls started so far
    lastSaved,    \* lastSaved[k]: the snapshot of the last successful save at k
    rwlock,       \* rwlock[T]: who holds the RwLock of actor type T's REGISTRY
    pending       \* pending[t]: what task t has still to run, lock by lock

vars == <<registry, poisoned, fs, nextId, state, spawnedFor, ext, task, last, calls,
          lastSaved, rwlock, pending>>
\* What the calls on one actor type's data work on, and what the locks add.
dataVars == <<registry, poisoned, fs, nextId, state, spawnedFor, ext, task, last, calls, lastSaved>>
lockVars == <<rwlock, pending>>

\* ---------------------------------------------------------------- BiHashMap
\* Two maps kept side by side; 0 marks an absent entry.
BiNew == [l2r |-> [k \in Keys |-> NoHandle], r2l |-> [h \in Handles |-> NoKey]]

\* insert(k, v): evicts the pair that shares k and the pair that shares v.
BiInsert(m, k, v) ==
    LET oldV == m.l2r[k]
        oldK == m.r2l[v]
        l1 == [x \in Keys |-> IF x = oldK THEN NoHandle ELSE m.l2r[x]]
        r1 == [y \in Handles |-> IF y = oldV THEN NoKey ELSE m.r2l[y]]
    IN [l2r |-> [l1 EXCEPT ![k] = v], r2l |-> [r1 EXCEPT ![v] = k]]

get_right(m, k) == m.l2r[k]
get_left(m, v) == m.r2l[v]

\* ---------------------------------------------------------------- runtime
\* A task's local ActorRef is a strong handle too.
Holds(t, h) == task[t].pc # "idle" /\ task[t].ref = h
Alive(h) == h \in ext \/ \E t \in Tasks : Holds(t, h)
Spawned == {h \in Handles : h < nextId}

DowngradeFirst(h) == 1

downgrade(h) == h
UpgradeAlways(w) == w

\* WeakActorRef::upgrade: fails once no strong handle is left.
upgrade(w) == IF Alive(w) THEN w ELSE NoHandle

\* ---------------------------------------------------------------- registry (derive macro)
RegNoEvict(reg, k, h) ==
    [l2r |-> [reg.l2r EXCEPT ![k] = h], r2l |-> [reg.r2l EXCEPT ![h] = k]]

RegKeepOld(reg, k, h) ==
    IF reg.l2r[k] # NoHandle THEN reg ELSE BiInsert(reg, k, h)

RegClearsOthers(reg, k, h) == BiInsert(BiNew, k, h)

\* register_persistent, once it has the write lock: registry.insert(key, weak)
register_persistent(reg, k, h) == BiInsert(reg, k, downgrade(h))

LookupNoUpgrade(reg, k) == get_right(reg, k)

persistence_key(reg, h) == get_left(reg, downgrade(h))

lookup_persistent(reg, k) ==
    LET w == get_right(reg, k)
    IN IF w = NoHandle THEN NoHandle ELSE upgrade(w)

\* ---------------------------------------------------------------- snapshot and codec
\* impl From<&SubActor> for SubActor: actor.clone()
SnapshotFrom(actorState) == actorState
\* Snapshot: Into<Args>, with Snapshot = Args = SubActor
SnapshotInto(snap) == snap
\* derive(Actor): the constructed actor is its Args
ActorFromArgs(args) == args

EncodeNoLen(snap) == snap

\* postcard::to_stdvec of a struct of one String: length prefix, then the bytes
to_stdvec(snap) == <<Len(snap)>> \o snap

\* postcard::from_bytes: Err on a short input, trailing bytes are ignored
from_bytes(bytes) ==
    IF Len(bytes) = 0 THEN [ok |-> FALSE, snap |-> <<>>]
    ELSE IF bytes[1] > Len(bytes) - 1 THEN [ok |-> FALSE, snap |-> <<>>]
    ELSE [ok |-> TRUE, snap |-> SubSeq(bytes, 2, 1 + bytes[1])]

\* ---------------------------------------------------------------- storage backend
Absent == [kind |-> "absent", has |-> FALSE, bytes |-> <<>>]
PlainFile == [kind |-> "file", has |-> FALSE, bytes |-> <<>>]
EmptyDir == [kind |-> "dir", has |-> FALSE, bytes |-> <<>>]
DirWith(bytes) == [kind |-> "dir", has |-> TRUE, bytes |-> bytes]

exists(node) == node.kind # "absent"
is_dir(node) == node.kind = "dir"

ReadOk(bytes) == [ok |-> TRUE, bytes |-> bytes, err |-> ""]
ReadErr(e) == [ok |-> FALSE, bytes |-> <<>>, err |-> e]

TryReadSchemeAsMissing(files, k) ==
    IF scheme(k) # "file" THEN ReadErr("NotExist")
    ELSE IF ~exists(files[k]) THEN ReadErr("NotExist")
    ELSE IF ~(is_dir(files[k]) /\ files[k].has) THEN ReadErr("Io")
    ELSE ReadOk(files[k].bytes)

try_read(files, k) ==
    IF scheme(k) # "file" THEN ReadErr("UnsupportedScheme")
    ELSE IF ~exists(files[k]) THEN ReadErr("NotExist")
    ELSE IF ~(is_dir(files[k]) /\ files[k].has) THEN ReadErr("Io")
    ELSE ReadOk(files[k].bytes)

WriteOk(files) == [ok |-> TRUE, fs |-> files, err |-> ""]
WriteErr(files, e) == [ok |-> FALSE, fs |-> files, err |-> e]

TryWriteNoDirCheck(files, k, snap) ==
    IF scheme(k) # "file" THEN WriteErr(files, "UnsupportedScheme")
    ELSE WriteOk([files EXCEPT ![k] = DirWith(to_stdvec(snap))])

try_write(files, k, snap) ==
    LET data == to_stdvec(snap)
    IN IF scheme(k) # "file" THEN WriteErr(files, "UnsupportedScheme")
       ELSE IF exists(files[k]) /\ ~is_dir(files[k])
            THEN WriteErr(files, "NotDirectory")
       ELSE WriteOk([files EXCEPT ![k] = DirWith(data)])

\* ---------------------------------------------------------------- results and locals
NoRes == [kind |-> "none", h |-> NoHandle, key |-> NoKey, err |-> ""]
OkRef(h) == [kind |-> "ok", h |-> h, key |-> NoKey, err |-> ""]
OkUnit == [kind |-> "ok", h |-> NoHandle, key |-> NoKey, err |-> ""]
OkKey(k) == [kind |-> "ok", h |-> NoHandle, key |-> k, err |-> ""]
Err(e) == [kind |-> "err", h |-> NoHandle, key |-> NoKey, err |-> e]

IdleTask == [op |-> "none", pc |-> "idle", key |-> NoKey, args |-> <<>>,
             dflt |-> <<>>, ref |-> NoHandle, snap |-> <<>>, wkey |-> NoKey,
             stage |-> "", lastErr |-> "", reads |-> 0, writes |-> 0,
             spawns |-> 0, res |-> NoRes]

\* The call returns res: only what the caller can tell of the call is kept.
Finish(tk, res) ==
    [IdleTask EXCEPT !.pc = "done", !.op = tk.op, !.key = tk.key,
                     !.lastErr = tk.lastErr, !.reads = tk.reads,
                     !.writes = tk.writes, !.spawns = tk.spawns, !.res = res]

\* The handle an Ok(ActorRef) gives its caller.
Returned(res) == IF res.kind = "ok" /\ res.h # NoHandle THEN {res.h} ELSE {}

\* A call in flight borrows the caller's &ActorRef (and &self).
Borrowed(h) == \E t \in Tasks : task[t].pc # "idle" /\ task[t].ref = h
                                 /\ task[t].op \in {"save", "register", "key_for"}

\* ---------------------------------------------------------------- registry locks
\* Each #[derive(PersistentActor)] type owns one static REGISTRY behind its own
\* RwLock: the example's ManagerActor and SubActor.
ActorTypes == {"Manager", "Sub"}

\* A std::sync::RwLock: one writer or any number of readers.
Unlocked == [w |-> 0, r |-> {}]

\* What a task does next: take or drop a registry lock, use the map, do storage
\* I/O, or construct an actor.
Ins(i, T) == [i |-> i, ty |-> T]

\* let Ok(mut registry) = REGISTRY.write() ..; registry.insert(..); the guard
\* drops at the end of register_persistent.
ProgRegister(T) == <<Ins("write", T), Ins("map", T), Ins("unlock", T)>>

\* let registry = REGISTRY.read().unwrap(); registry.get_left(..).cloned()
ProgKeyFor(T) == <<Ins("read", T), Ins("map", T), Ins("unlock", T)>>

\* let registry = REGISTRY.read().unwrap(); registry.get_right(..).and_then(upgrade)
ProgLookup(T) == <<Ins("read", T), Ins("map", T), Ins("unlock", T)>>

SpawnUnderWriteLock(T, start) ==
    <<Ins("write", T), Ins("construct", T)>> \o start
        \o <<Ins("map", T), Ins("unlock", T)>>

\* let actor_ref = Self::spawn(args); Self::register_persistent(key, &actor_ref)?
\* start is what the new actor's on_start runs.
ProgSpawnPersistent(T, start) ==
    <<Ins("construct", T)>> \o start \o ProgRegister(T)

\* respawn_persistent: lookup; then try_read, from_bytes and spawn_persistent.
\* o is how the call goes: "hit" (lookup resolves), "fail" (read or decode
\* fails) or "ok".
ProgRespawn(T, o, start) ==
    ProgLookup(T) \o
      (IF o = "hit" THEN <<>>
       ELSE <<Ins("io", T)>> \o
              (IF o = "fail" THEN <<>> ELSE ProgSpawnPersistent(T, start)))

\* try_respawn_persistent: respawn_persistent, and spawn_persistent on Err.
ProgTryRespawn(T, o, start) ==
    ProgRespawn(T, o, start) \o
      (IF o = "fail" THEN ProgSpawnPersistent(T, start) ELSE <<>>)

\* ManagerActor::on_start recovers its sub-actors with
\* SubActor::respawn_persistent(url); SubActor has the default on_start. It is
\* placed where the spawning call constructs the actor.
on_start(T, o) == IF T = "Manager" THEN ProgRespawn("Sub", o, <<>>) ELSE <<>>

\* ManagerArgs::from(&ManagerActor) asks SubActor::persistence_key of every
\* sub-actor; SubActor's snapshot is a clone.
ProgSnapshotFrom(T) == IF T = "Manager" THEN ProgKeyFor("Sub") ELSE <<>>

\* save_snapshot: persistence_key, then Snapshot::from(self) and try_write.
ProgSaveSnapshot(T, keyed) ==
    ProgKeyFor(T) \o
      (IF keyed THEN ProgSnapshotFrom(T) \o <<Ins("io", T)>> ELSE <<>>)

Outcomes == {"hit", "fail", "ok"}

\* The registry locks task t holds.
Held(t) == {T \in ActorTypes : rwlock[T].w = t \/ t \in rwlock[T].r}

\* ---------------------------------------------------------------- initial state
\* What a key's path may hold before the process starts.
InitNodes == {Absent, PlainFile, EmptyDir, DirWith(<<>>)}
                 \cup {DirWith(to_stdvec(d)) : d \in Data}

Init ==
    /\ registry = BiNew
    /\ poisoned = FALSE
    /\ fs \in [FileKeys -> InitNodes]
    /\ nextId = 1
    /\ state = [h \in Handles |-> <<>>]
    /\ spawnedFor = [h \in Handles |-> NoKey]
    /\ ext = {}
    /\ task = [t \in Tasks |-> IdleTask]
    /\ last = IdleTask
    /\ calls = 0
    /\ lastSaved = [k \in FileKeys |-> [some |-> FALSE, snap |-> <<>>]]
    /\ rwlock = [T \in ActorTypes |-> Unlocked]
    /\ pending = [t \in Tasks |-> <<>>]

\* ---------------------------------------------------------------- public calls
Begin(t, op, pc, k, a, h, stage) ==
    /\ task[t].pc = "idle"
    /\ calls < MaxCalls
    /\ calls' = calls + 1
    /\ task' = [task EXCEPT ![t] =
                  [IdleTask EXCEPT !.op = op, !.pc = pc, !.key = k, !.args = a,
                                   !.dflt = a, !.ref = h, !.stage = stage]]
    /\ UNCHANGED <<registry, poisoned, fs, nextId, state, spawnedFor, ext, last, lastSaved>>
    /\ UNCHANGED lockVars

\* A::spawn_persistent(key, args)
CallSpawnPersistent(t, k, a) == Begin(t, "spawn", "spawn", k, a, NoHandle, "direct")

\* A::respawn_persistent(key)
CallRespawnPersistent(t, k) == Begin(t, "respawn", "lookup", k, <<>>, NoHandle, "recover")

\* A::try_respawn_persistent(key, args)
CallTryRespawnPersistent(t, k, a) == Begin(t, "try", "lookup", k, a, NoHandle, "recover")

\* actor.save_snapshot(&actor_ref), from the actor's own handler
CallSaveSnapshot(t, h) ==
    /\ h \in ext
    /\ Begin(t, "save", "key", NoKey, <<>>, h, "")

\* A::register_persistent(key, &actor_ref)
CallRegisterPersistent(t, k, h) ==
    /\ h \in ext
    /\ Begin(t, "register", "register", k, <<>>, h, "")

\* A::lookup_persistent(&key)
CallLookupPersistent(t, k) == Begin(t, "lookup", "lookup", k, <<>>, NoHandle, "")

\* A::persistence_key(&actor_ref)
CallPersistenceKey(t, h) ==
    /\ h \in ext
    /\ Begin(t, "key_for", "key", NoKey, <<>>, h, "")

\* ---------------------------------------------------------------- steps
\* Task t goes on as tk, or returns when tk is a finished call.
Commit(t, tk) ==
    /\ task' = [task EXCEPT ![t] = IF tk.pc = "done" THEN IdleTask ELSE tk]
    /\ last' = IF tk.pc = "done" THEN tk ELSE last
    /\ UNCHANGED lockVars

Return(t, tk, res) ==
    /\ Commit(t, Finish(tk, res))
    /\ ext' = ext \cup Returned(res)

FallbackRespawnsAgain(tk, e) ==
    IF tk.op = "try"
    THEN IF tk.reads < 2 THEN [tk EXCEPT !.pc = "lookup", !.lastErr = e]
         ELSE [tk EXCEPT !.pc = "spawn", !.args = tk.dflt, !.stage = "fallback",
                         !.lastErr = e, !.ref = NoHandle]
    ELSE Finish([tk EXCEPT !.lastErr = e], Err(e))

RespawnRetriesOnce(tk, e) ==
    IF tk.op = "try"
    THEN [tk EXCEPT !.pc = "spawn", !.args = tk.dflt, !.stage = "fallback",
                    !.lastErr = e, !.ref = NoHandle]
    ELSE IF tk.reads < 2 THEN [tk EXCEPT !.pc = "read", !.lastErr = e]
    ELSE Finish([tk EXCEPT !.lastErr = e], Err(e))

RespawnErrSurfaced(tk, e) == Finish([tk EXCEPT !.lastErr = e], Err(e))

\* respawn_persistent failed with e: `?` hands e to the caller;
\* try_respawn_persistent's Err(_e) arm runs spawn_persistent(key, args).
respawn_failed(tk, e) ==
    IF tk.op = "try"
    THEN [tk EXCEPT !.pc = "spawn", !.args = tk.dflt, !.stage = "fallback",
                    !.lastErr = e, !.ref = NoHandle]
    ELSE Finish([tk EXCEPT !.lastErr = e], Err(e))

StepLookupSkipsFastPath(t) ==
    LET tk == task[t]
        found == lookup_persistent(registry, tk.key)
    IN /\ tk.pc = "lookup"
       /\ IF tk.op = "lookup"
          THEN Return(t, tk, OkRef(found))
          ELSE /\ Commit(t, [tk EXCEPT !.pc = "read"])
               /\ ext' = ext
       /\ UNCHANGED <<registry, poisoned, fs, nextId, state, spawnedFor, calls, lastSaved>>

\* lookup_persistent(&key), alone or as the first line of respawn_persistent
StepLookup(t) ==
    LET tk == task[t]
        found == lookup_persistent(registry, tk.key)
    IN /\ tk.pc = "lookup"
       /\ IF found # NoHandle \/ tk.op = "lookup"
          THEN Return(t, tk, OkRef(found))
          ELSE /\ Commit(t, [tk EXCEPT !.pc = "read"])
               /\ ext' = ext
       /\ UNCHANGED <<registry, poisoned, fs, nextId, state, spawnedFor, calls, lastSaved>>

RecoveredKeepsDefault(tk, snap) == [tk EXCEPT !.pc = "spawn", !.args = tk.dflt]

\* let snapshot = from_bytes(&data)?; spawn_persistent(key, snapshot.into())
recovered(tk, snap) == [tk EXCEPT !.pc = "spawn", !.args = SnapshotInto(snap)]

StepReadCreatesDir(t) ==
    LET tk == [task[t] EXCEPT !.reads = @ + 1]
        rd == try_read(fs, tk.key)
        dec == from_bytes(rd.bytes)
        next == IF ~rd.ok THEN respawn_failed(tk, rd.err)
                ELSE IF ~dec.ok THEN respawn_failed(tk, "Decode")
                ELSE recovered(tk, dec.snap)
    IN /\ task[t].pc = "read"
       /\ Commit(t, next)
       /\ fs' = IF tk.key \in FileKeys /\ ~exists(fs[tk.key])
                THEN [fs EXCEPT ![tk.key] = EmptyDir] ELSE fs
       /\ UNCHANGED <<registry, poisoned, nextId, state, spawnedFor, ext, calls, lastSaved>>

\* try_read(&key).await? and postcard::from_bytes(&data)?
StepRead(t) ==
    LET tk == [task[t] EXCEPT !.reads = @ + 1]
        rd == try_read(fs, tk.key)
        dec == from_bytes(rd.bytes)
        next == IF ~rd.ok THEN respawn_failed(tk, rd.err)
                ELSE IF ~dec.ok THEN respawn_failed(tk, "Decode")
                ELSE recovered(tk, dec.snap)
    IN /\ task[t].pc = "read"
       /\ Commit(t, next)
       /\ UNCHANGED <<registry, poisoned, fs, nextId, state, spawnedFor, ext, calls, lastSaved>>

\* The caller drops the future of respawn_persistent (or of the
\* try_respawn_persistent around it) between try_read(&key).await and
\* spawn_persistent(key, ..).await: the locals go, nothing else runs.
Cancel(t) ==
    LET tk == task[t]
    IN /\ tk.pc = "spawn" /\ tk.stage = "recover"
       /\ task' = [task EXCEPT ![t] = IdleTask]
       /\ last' = [Finish(tk, NoRes) EXCEPT !.pc = "cancelled"]
       /\ UNCHANGED lockVars
       /\ UNCHANGED <<registry, poisoned, fs, nextId, state, spawnedFor, ext, calls, lastSaved>>

\* let actor_ref = Self::spawn(args)
StepSpawn(t) ==
    LET tk == task[t]
        h == nextId
    IN /\ tk.pc = "spawn"
       /\ nextId <= MaxActors
       /\ nextId' = nextId + 1
       /\ state' = [state EXCEPT ![h] = ActorFromArgs(tk.args)]
       /\ spawnedFor' = [spawnedFor EXCEPT ![h] = tk.key]
       /\ Commit(t, [tk EXCEPT !.pc = "register", !.ref = h, !.spawns = @ + 1])
       /\ UNCHANGED <<registry, poisoned, fs, ext, calls, lastSaved>>

StepRegisterFailsInRecovery(t) ==
    LET tk == task[t]
    IN /\ tk.pc = "register"
       /\ IF poisoned \/ (tk.op = "try" /\ tk.stage = "recover")
          THEN /\ registry' = registry
               /\ ext' = ext
               /\ Commit(t, IF tk.stage = "recover"
                                THEN respawn_failed(tk, "LockPoisoned")
                                ELSE Finish([tk EXCEPT !.lastErr = "LockPoisoned"],
                                            Err("LockPoisoned")))
          ELSE /\ registry' = register_persistent(registry, tk.key, tk.ref)
               /\ Return(t, tk, IF tk.op = "register" THEN OkUnit ELSE OkRef(tk.ref))
       /\ UNCHANGED <<poisoned, fs, nextId, state, spawnedFor, calls, lastSaved>>

\* Self::register_persistent(key, &actor_ref)?, alone or inside spawn_persistent
StepRegister(t) ==
    LET tk == task[t]
    IN /\ tk.pc = "register"
       /\ IF poisoned
          THEN /\ registry' = registry
               /\ ext' = ext
               /\ Commit(t, IF tk.stage = "recover"
                                THEN respawn_failed(tk, "LockPoisoned")
                                ELSE Finish([tk EXCEPT !.lastErr = "LockPoisoned"],
                                            Err("LockPoisoned")))
          ELSE /\ registry' = register_persistent(registry, tk.key, tk.ref)
               /\ Return(t, tk, IF tk.op = "register" THEN OkUnit ELSE OkRef(tk.ref))
       /\ UNCHANGED <<poisoned, fs, nextId, state, spawnedFor, calls, lastSaved>>

SaveUnregisteredWrites(tk, key) ==
    [tk EXCEPT !.pc = "write", !.wkey = IF key = NoKey THEN FileKey ELSE key,
               !.snap = SnapshotFrom(state[tk.ref])]

\* let Some(key) = Self::persistence_key(actor_ref) else { return Ok(()) };
\* let snapshot = Self::Snapshot::from(self);
save_keyed(tk, key) ==
    IF key = NoKey THEN Finish(tk, OkUnit)
    ELSE [tk EXCEPT !.pc = "write", !.wkey = key,
                    !.snap = SnapshotFrom(state[tk.ref])]

\* persistence_key(&actor_ref), alone or as the first line of save_snapshot
StepKey(t) ==
    LET tk == task[t]
        key == persistence_key(registry, tk.ref)
    IN /\ tk.pc = "key"
       /\ Commit(t, IF tk.op = "key_for" THEN Finish(tk, OkKey(key))
                     ELSE save_keyed(tk, key))
       /\ UNCHANGED <<registry, poisoned, fs, nextId, state, spawnedFor, ext, calls, lastSaved>>

\* Self::try_write(&key, snapshot).await?; Ok(())
StepWrite(t) ==
    LET tk == [task[t] EXCEPT !.writes = @ + 1]
        wr == try_write(fs, tk.wkey, tk.snap)
    IN /\ task[t].pc = "write"
       /\ fs' = wr.fs
       /\ lastSaved' = IF wr.ok
                       THEN [lastSaved EXCEPT ![tk.wkey] = [some |-> TRUE, snap |-> tk.snap]]
                       ELSE lastSaved
       /\ Commit(t, IF wr.ok THEN Finish([tk EXCEPT !.key = tk.wkey], OkUnit)
                     ELSE Finish([tk EXCEPT !.key = tk.wkey, !.lastErr = wr.err],
                                 Err(wr.err)))
       /\ UNCHANGED <<registry, poisoned, nextId, state, spawnedFor, ext, calls>>

\* ---------------------------------------------------------------- application
\* A::spawn(args): an actor that is not persistent.
SpawnPlain(a) ==
    /\ nextId <= MaxActors
    /\ calls < MaxCalls
    /\ calls' = calls + 1
    /\ nextId' = nextId + 1
    /\ state' = [state EXCEPT ![nextId] = ActorFromArgs(a)]
    /\ ext' = ext \cup {nextId}
    /\ UNCHANGED <<registry, poisoned, fs, spawnedFor, task, last, lastSaved>>
    /\ UNCHANGED lockVars

DropHandleRemovesEntry(h) ==
    /\ h \in ext
    /\ ~Borrowed(h)
    /\ ext' = ext \ {h}
    /\ registry' = IF registry.r2l[h] = NoKey THEN registry
                   ELSE [l2r |-> [registry.l2r EXCEPT ![registry.r2l[h]] = NoHandle],
                         r2l |-> [registry.r2l EXCEPT ![h] = NoKey]]
    /\ UNCHANGED <<poisoned, fs, nextId, state, spawnedFor, task, last, calls, lastSaved>>
    /\ UNCHANGED lockVars

\* The application drops its strong handles of h: the actor terminates.
DropHandle(h) ==
    /\ h \in ext
    /\ ~Borrowed(h)
    /\ ext' = ext \ {h}
    /\ UNCHANGED <<registry, poisoned, fs, nextId, state, spawnedFor, task, last, calls, lastSaved>>
    /\ UNCHANGED lockVars

\* A message handler of actor h changes its data.
Mutate(h, d) ==
    /\ h \in ext
    /\ ~Borrowed(h)
    /\ state[h] # d
    /\ state' = [state EXCEPT ![h] = d]
    /\ UNCHANGED <<registry, poisoned, fs, nextId, ext, spawnedFor, task, last, calls, lastSaved>>
    /\ UNCHANGED lockVars

Next ==
    \/ \E t \in Tasks, k \in Keys, a \in Data : CallSpawnPersistent(t, k, a)
    \/ \E t \in Tasks, k \in Keys : CallRespawnPersistent(t, k)
    \/ \E t \in Tasks, k \in Keys, a \in Data : CallTryRespawnPersistent(t, k, a)
    \/ \E t \in Tasks, h \in Handles : CallSaveSnapshot(t, h)
    \/ \E t \in Tasks, k \in Keys, h \in Handles : CallRegisterPersistent(t, k, h)
    \/ \E t \in Tasks, k \in Keys : CallLookupPersistent(t, k)
    \/ \E t \in Tasks, h \in Handles : CallPersistenceKey(t, h)
    \/ \E t \in Tasks : StepLookup(t)
    \/ \E t \in Tasks : StepRead(t)
    \/ \E t \in Tasks : Cancel(t)
    \/ \E t \in Tasks : StepSpawn(t)
    \/ \E t \in Tasks : StepRegister(t)
    \/ \E t \in Tasks : StepKey(t)
    \/ \E t \in Tasks : StepWrite(t)
    \/ \E a \in Data : SpawnPlain(a)
    \/ \E h \in Handles : DropHandle(h)
    \/ \E h \in Handles, d \in Data : Mutate(h, d)

Spec == Init /\ [][Next]_vars

\* ---------------------------------------------------------------- the calls, lock by lock
\* Task t starts a call whose run is prog.
LockCall(t, prog) ==
    /\ pending[t] = <<>>
    /\ pending' = [pending EXCEPT ![t] = prog]
    /\ UNCHANGED rwlock
    /\ UNCHANGED dataVars

LockCallRegister(t, T) == LockCall(t, ProgRegister(T))
LockCallLookup(t, T) == LockCall(t, ProgLookup(T))
LockCallKeyFor(t, T) == LockCall(t, ProgKeyFor(T))
LockCallSpawnPersistent(t, T, o) == LockCall(t, ProgSpawnPersistent(T, on_start(T, o)))
LockCallRespawn(t, T, o, o2) == LockCall(t, ProgRespawn(T, o, on_start(T, o2)))
LockCallTryRespawn(t, T, o, o2) == LockCall(t, ProgTryRespawn(T, o, on_start(T, o2)))
LockCallSaveSnapshot(t, T, keyed) == LockCall(t, ProgSaveSnapshot(T, keyed))

\* Task t is at instruction i.
At(t, i) == pending[t] # <<>> /\ Head(pending[t]).i = i

Advance(t) == pending' = [pending EXCEPT ![t] = Tail(@)]

\* REGISTRY.read(): waits while a writer holds the lock.
LockRead(t) ==
    /\ At(t, "read")
    /\ LET T == Head(pending[t]).ty
       IN /\ rwlock[T].w = 0
          /\ rwlock' = [rwlock EXCEPT ![T].r = @ \cup {t}]
    /\ Advance(t)
    /\ UNCHANGED dataVars

\* REGISTRY.write(): waits while anyone holds the lock.
LockWrite(t) ==
    /\ At(t, "write")
    /\ LET T == Head(pending[t]).ty
       IN /\ rwlock[T] = Unlocked
          /\ rwlock' = [rwlock EXCEPT ![T].w = t]
    /\ Advance(t)
    /\ UNCHANGED dataVars

\* insert, get_left or get_right (with upgrade) on the map
LockMap(t) ==
    /\ At(t, "map")
    /\ Advance(t)
    /\ UNCHANGED rwlock
    /\ UNCHANGED dataVars

\* The guard goes out of scope.
LockUnlock(t) ==
    /\ At(t, "unlock")
    /\ LET T == Head(pending[t]).ty
       IN rwlock' = [rwlock EXCEPT ![T] =
                        [w |-> IF @.w = t THEN 0 ELSE @.w, r |-> @.r \ {t}]]
    /\ Advance(t)
    /\ UNCHANGED dataVars

\* try_read(..).await or try_write(..).await
LockIo(t) ==
    /\ At(t, "io")
    /\ Advance(t)
    /\ UNCHANGED rwlock
    /\ UNCHANGED dataVars

\* Self::spawn(args)
LockConstruct(t) ==
    /\ At(t, "construct")
    /\ Advance(t)
    /\ UNCHANGED rwlock
    /\ UNCHANGED dataVars

\* Task t takes the next instruction of its call.
LockStep(t) ==
    \/ LockRead(t)
    \/ LockWrite(t)
    \/ LockMap(t)
    \/ LockUnlock(t)
    \/ LockIo(t)
    \/ LockConstruct(t)

InitLock == Init /\ fs = [k \in FileKeys |-> Absent]

NextLock ==
    \/ \E t \in Tasks, T \in ActorTypes : LockCallRegister(t, T)
    \/ \E t \in Tasks, T \in ActorTypes : LockCallLookup(t, T)
    \/ \E t \in Tasks, T \in ActorTypes : LockCallKeyFor(t, T)
    \/ \E t \in Tasks, T \in ActorTypes, o \in Outcomes : LockCallSpawnPersistent(t, T, o)
    \/ \E t \in Tasks, T \in ActorTypes, o \in Outcomes, o2 \in Outcomes :
          LockCallRespawn(t, T, o, o2)
    \/ \E t \in Tasks, T \in ActorTypes, o \in Outcomes, o2 \in Outcomes :
          LockCallTryRespawn(t, T, o, o2)
    \/ \E t \in Tasks, T \in ActorTypes, keyed \in BOOLEAN : LockCallSaveSnapshot(t, T, keyed)
    \/ \E t \in Tasks : LockRead(t)
    \/ \E t \in Tasks : LockWrite(t)
    \/ \E t \in Tasks : LockMap(t)
    \/ \E t \in Tasks : LockUnlock(t)
    \/ \E t \in Tasks : LockIo(t)
    \/ \E t \in Tasks : LockConstruct(t)

SpecLock == InitLock /\ [][NextLock]_vars

\* ---------------------------------------------------------------- vocabulary of the claims
\* The caller of task t's call abandons it in this step.
Abandons(t) == task[t].pc # "idle" /\ task'[t] = IdleTask /\ last'.pc = "cancelled"
\* Task t runs a step of its call.
Steps(t) == task[t].pc # "idle" /\ task'[t] # task[t] /\ ~Abandons(t)
\* Task t's call returns in this step.
Returns(t) == Steps(t) /\ task'[t] = IdleTask /\ last'.pc = "done"
\* h was registered and has lost its entry.
Evicted(h) == /\ h \in Spawned /\ spawnedFor[h] # NoKey
              /\ persistence_key(registry, h) = NoKey
              /\ \A t \in Tasks : ~Holds(t, h)
\* The path of k holds a payload that decodes.
ValidSnapshotAt(files, k) ==
    /\ scheme(k) = "file"
    /\ files[k].kind = "dir" /\ files[k].has
    /\ from_bytes(files[k].bytes).ok
SnapshotAt(files, k) == from_bytes(files[k].bytes).snap

\* ---------------------------------------------------------------- C1
\* C1: in every reachable state the registry is one-to-one and its two views
\* agree: key k maps to handle h exactly when h maps back to k.
C1_RegistryOneToOne ==
    /\ \A k \in Keys : registry.l2r[k] # NoHandle
                          => registry.r2l[registry.l2r[k]] = k
    /\ \A h \in Handles : registry.r2l[h] # NoKey
                          => registry.l2r[registry.r2l[h]] = h

\* A register call that reused a taken key and a registered handle at once.
C1_Witness ==
    /\ last.pc = "done" /\ last.op = "register" /\ last.key = FileKey
    /\ nextId = 3
    /\ spawnedFor[1] = FileKey /\ spawnedFor[2] = HttpKey
    /\ registry.l2r[FileKey] = 2 /\ registry.l2r[HttpKey] = NoHandle
    /\ registry.r2l[1] = NoKey

\* ---------------------------------------------------------------- C2
\* C2: registering h2 under a key that a live h1 holds succeeds, and afterwards
\* lookup(k) is h2, key_for(h1) is None and key_for(h2) is k.
C2_KeyCollisionEvicts ==
    [][\A t \in Tasks, k \in Keys, h1 \in Handles, h2 \in Handles :
         (/\ Steps(t) /\ task[t].pc = "register"
          /\ task[t].key = k /\ task[t].ref = h2
          /\ get_right(registry, k) = h1 /\ h1 # h2 /\ Alive(h1))
         => /\ Returns(t) /\ last'.res.kind = "ok"
            /\ lookup_persistent(registry, k)' = h2
            /\ persistence_key(registry, h1)' = NoKey
            /\ persistence_key(registry, h2)' = k]_vars

\* Two actors registered one after the other under the file key, both alive.
C2_Witness ==
    /\ nextId = 3 /\ calls = 2
    /\ \A t \in Tasks : task[t].pc = "idle"
    /\ spawnedFor[1] = FileKey /\ spawnedFor[2] = FileKey
    /\ Alive(1) /\ Alive(2)
    /\ lookup_persistent(registry, FileKey) # NoHandle
    /\ \E h \in Handles : Evicted(h)

\* ---------------------------------------------------------------- C3
\* C3: lookup(key) returns a strong handle exactly when the registry has an
\* entry for key whose actor is alive; for a dead actor's entry it returns None.
C3_LookupIffLive ==
    [][\A t \in Tasks :
         LET tk == task[t]
             w == registry.l2r[tk.key]
         IN (Steps(t) /\ tk.op = "lookup")
            => /\ Returns(t)
               /\ last'.res.h # NoHandle <=> (w # NoHandle /\ Alive(w))
               /\ last'.res.h # NoHandle => (last'.res.h = w /\ w \in ext')
               /\ registry' = registry]_vars

\* A lookup that returned None for a key whose entry is still in the registry.
C3_Witness ==
    /\ last.pc = "done" /\ last.op = "lookup" /\ last.res.h = NoHandle
    /\ registry.l2r[last.key] # NoHandle
    /\ ~Alive(registry.l2r[last.key])

\* ---------------------------------------------------------------- C4
\* C4: a try_respawn_persistent call that returns, returns a handle.
C4_TryRespawnNeverFails ==
    (last.pc = "done" /\ last.op = "try")
        => (last.res.kind = "ok" /\ last.res.h \in Spawned)

\* try_respawn_persistent returned although the payload at its key is corrupt.
C4_Witness ==
    /\ last.pc = "done" /\ last.op = "try" /\ last.lastErr = "Decode"
    /\ last.res.kind = "ok"

\* ---------------------------------------------------------------- C5
\* C5 as stated: the handle try_respawn_persistent returns is backed by the
\* snapshot at key when a valid one exists, and by default_args otherwise.
C5_Original ==
    [][\A t \in Tasks :
         LET tk == task[t]
             h == last'.res.h
         IN (Returns(t) /\ tk.op = "try" /\ h # NoHandle)
            => state'[h] = IF ValidSnapshotAt(fs, tk.key)
                           THEN ActorFromArgs(SnapshotInto(SnapshotAt(fs, tk.key)))
                           ELSE ActorFromArgs(tk.dflt)]_vars

\* C5 amended: try_respawn_persistent returns the live actor registered under
\* key when lookup(key) resolves; otherwise it constructs one actor, from the
\* snapshot read at key when that is valid and from default_args when not,
\* and returns it.
C5_Amended ==
    [][\A t \in Tasks :
         LET tk == task[t]
             live == lookup_persistent(registry, tk.key)
         IN (Steps(t) /\ tk.op = "try")
            => /\ tk.pc = "lookup" =>
                    IF live # NoHandle
                    THEN Returns(t) /\ last'.res = OkRef(live) /\ last'.spawns = 0
                    ELSE task'[t].pc = "read"
               /\ tk.pc = "read" =>
                    /\ task'[t].pc = "spawn"
                    /\ task'[t].args = IF ValidSnapshotAt(fs, tk.key)
                                       THEN SnapshotInto(SnapshotAt(fs, tk.key))
                                       ELSE tk.dflt
               /\ tk.pc = "spawn" =>
                    /\ task'[t].pc = "register" /\ task'[t].ref = nextId
                    /\ state'[nextId] = ActorFromArgs(tk.args)
               /\ tk.pc = "register" =>
                    /\ Returns(t) /\ last'.res = OkRef(tk.ref) /\ last'.spawns = 1
                    /\ state'[tk.ref] = ActorFromArgs(tk.args)]_vars

\* try_respawn_persistent returned an actor recovered from a non-empty snapshot.
C5_Witness ==
    /\ last.pc = "done" /\ last.op = "try" /\ last.lastErr = ""
    /\ last.reads = 1 /\ last.spawns = 1
    /\ last.res.h # NoHandle /\ state[last.res.h] = <<Char>>

\* ---------------------------------------------------------------- C6
\* C6: for each key, at most one actor constructed for that key is alive.
C6_OneLiveActorPerKey ==
    \A k \in Keys :
        Cardinality({h \in Spawned : Alive(h) /\ spawnedFor[h] = k}) <= 1

\* ---------------------------------------------------------------- C7
\* C7: save_snapshot for a handle with no registry entry returns Ok(()) and
\* writes nothing: storage is the same before and after.
C7_SaveUnregisteredIsNoOp ==
    [][\A t \in Tasks :
         (/\ Steps(t) /\ task[t].op = "save" /\ task[t].pc = "key"
          /\ persistence_key(registry, task[t].ref) = NoKey)
         => /\ Returns(t) /\ last'.res = OkUnit /\ last'.writes = 0
            /\ fs' = fs]_vars

\* save_snapshot of the only actor, which was never registered, returned
\* Ok(()) without a write.
C7_Witness ==
    /\ last.pc = "done" /\ last.op = "save" /\ last.res = OkUnit
    /\ last.writes = 0
    /\ nextId = 2 /\ ext = {1} /\ spawnedFor[1] = NoKey
    /\ persistence_key(registry, 1) = NoKey

\* ---------------------------------------------------------------- C8
\* C8: a successful save_snapshot at k leaves a payload that decodes to the
\* snapshot of the actor's state; while that is the last save at k, a
\* respawn_persistent(k) that finds no live actor constructs its actor from
\* that snapshot converted into args, registers it under k and returns it,
\* so that lookup(k) resolves to it.
C8_SaveRecoverRoundTrip ==
    [][/\ \A k \in FileKeys :
            lastSaved'[k].some
               => /\ fs'[k].kind = "dir" /\ fs'[k].has
                  /\ from_bytes(fs'[k].bytes) = [ok |-> TRUE, snap |-> lastSaved'[k].snap]
       /\ \A t \in Tasks, k \in Keys, h \in Handles :
            (Steps(t) /\ task[t].pc = "write" /\ Returns(t) /\ last'.res.kind = "ok"
                /\ task[t].wkey = k /\ task[t].ref = h)
               => lastSaved'[k] = [some |-> TRUE, snap |-> SnapshotFrom(state[h])]
       /\ \A t \in Tasks, k \in Keys, h \in Handles :
            (Steps(t) /\ task[t].op = "respawn" /\ task[t].key = k)
               => /\ (task[t].pc = "read" /\ k \in FileKeys /\ lastSaved[k].some)
                       => /\ task'[t].pc = "spawn"
                          /\ task'[t].args = SnapshotInto(lastSaved[k].snap)
                  /\ (task[t].pc = "spawn")
                       => /\ task'[t].ref = nextId
                          /\ state'[nextId] = ActorFromArgs(task[t].args)
                  /\ (task[t].pc = "register" /\ task[t].ref = h)
                       => /\ Returns(t) /\ last'.res = OkRef(h)
                          /\ lookup_persistent(registry, k)' = h]_vars

\* respawn_persistent returned an actor built from the non-empty snapshot that
\* a save_snapshot of this run wrote.
C8_Witness ==
    /\ last.pc = "done" /\ last.op = "respawn" /\ last.res.kind = "ok"
    /\ last.reads = 1 /\ last.spawns = 1
    /\ lastSaved[FileKey] = [some |-> TRUE, snap |-> <<Char>>]
    /\ state[last.res.h] = <<Char>>
    /\ lookup_persistent(registry, FileKey) = last.res.h

\* ---------------------------------------------------------------- C9
\* C9: when the path of the key is a plain file, save_snapshot of the actor
\* registered under the key fails and leaves storage as it was.
C9_SaveOnPlainFileFails ==
    [][\A t \in Tasks, k \in FileKeys :
         (/\ Steps(t) /\ task[t].op = "save" /\ task[t].pc = "write"
          /\ task[t].wkey = k /\ fs[k].kind = "file")
         => /\ Returns(t) /\ last'.res = Err("NotDirectory")
            /\ fs' = fs]_vars

\* save_snapshot failed on a key whose path is a plain file.
C9_Witness ==
    /\ last.pc = "done" /\ last.op = "save" /\ last.writes = 1
    /\ last.res = Err("NotDirectory")
    /\ fs[FileKey] = PlainFile

\* ---------------------------------------------------------------- C10
\* A returned call that reached the storage backend with a key of a scheme
\* that has no backend.
HitUnsupported(c) ==
    /\ c.pc = "done" /\ c.key # NoKey /\ scheme(c.key) # "file"
    /\ c.reads + c.writes >= 1

\* C10 as stated: respawn_persistent, try_respawn_persistent and save_snapshot
\* each return the unsupported-locator error they hit, without a retry.
C10_Original ==
    (last.op \in {"respawn", "try", "save"} /\ HitUnsupported(last))
        => (last.res = Err("UnsupportedScheme") /\ last.reads + last.writes = 1)

\* C10 amended: respawn_persistent and save_snapshot return the
\* unsupported-locator error they hit; try_respawn_persistent absorbs it and
\* returns the actor that one spawn_persistent(key, args) constructs; no call
\* reaches the storage backend more than once.
C10_Amended ==
    /\ (last.op \in {"respawn", "save"} /\ HitUnsupported(last))
          => last.res = Err("UnsupportedScheme")
    /\ (last.op = "try" /\ HitUnsupported(last))
          => /\ last.lastErr = "UnsupportedScheme"
             /\ last.res.kind = "ok" /\ last.res.h \in Spawned
             /\ last.spawns = 1
    /\ last.reads + last.writes <= 1
    /\ \A t \in Tasks : task[t].reads + task[t].writes <= 1

\* respawn_persistent returned the unsupported-locator error of its key.
C10_Witness ==
    /\ last.pc = "done" /\ last.op = "respawn" /\ last.key = HttpKey
    /\ last.reads = 1 /\ last.res = Err("UnsupportedScheme")

\* ---------------------------------------------------------------- C11
\* C11: storage changes only in the write step of a save_snapshot call whose
\* actor the registry gave a key for; no other call or step changes it.
C11_OnlySaveWrites ==
    [][fs' # fs =>
         \E t \in Tasks :
            /\ Steps(t) /\ task[t].op = "save" /\ task[t].pc = "write"
            /\ task[t].wkey \in FileKeys
            /\ \A k \in FileKeys : k # task[t].wkey => fs'[k] = fs[k]]_vars

\* try_respawn_persistent returned a fresh actor for a key with no directory,
\* and the directory is still absent.
C11_Witness ==
    /\ last.pc = "done" /\ last.op = "try" /\ last.key = FileKey
    /\ last.lastErr = "NotExist" /\ last.res.kind = "ok"
    /\ fs[FileKey] = Absent

\* ---------------------------------------------------------------- C12
\* C12: registering h2 under k2 leaves the entry (k1, h1) of another key and
\* another handle as it was; with both actors alive, lookup(k1) is h1,
\* lookup(k2) is h2, key_for(h1) is k1 and key_for(h2) is k2.
C12_OtherEntryUntouched ==
    [][\A t \in Tasks, k1 \in Keys, k2 \in Keys, h1 \in Handles, h2 \in Handles :
         (/\ Steps(t) /\ task[t].pc = "register"
          /\ task[t].key = k2 /\ task[t].ref = h2
          /\ k1 # k2 /\ h1 # h2
          /\ get_right(registry, k1) = h1)
         => /\ get_right(registry, k1)' = h1
            /\ persistence_key(registry, h1)' = k1
            /\ persistence_key(registry, h2)' = k2
            /\ lookup_persistent(registry, k2)' = h2
            /\ Alive(h1) => lookup_persistent(registry, k1)' = h1]_vars

\* Two live actors registered under the two keys, each resolving to its own.
C12_Witness ==
    /\ lookup_persistent(registry, FileKey) = 1
    /\ lookup_persistent(registry, HttpKey) = 2
    /\ persistence_key(registry, 1) = FileKey
    /\ persistence_key(registry, 2) = HttpKey
    /\ 1 \in ext /\ 2 \in ext

\* ---------------------------------------------------------------- C13
\* C13 as stated (its one-step consequence): no step changes key_for(h) from
\* a key k to another key.
C13_Original ==
    [][\A h \in Handles, k \in Keys :
         persistence_key(registry, h) = k
            => persistence_key(registry, h)' \in {k, NoKey}]_vars

\* C13 amended: key_for(h) is given a key only by a register step for h;
\* spawn_persistent, respawn_persistent and try_respawn_persistent register
\* only the actor they have just constructed, which had no key; the key of a
\* handle that has or had one changes only by a direct register_persistent
\* call for that handle, which reassigns it.
C13_Amended ==
    [][\A h \in Handles, k \in Keys :
         (persistence_key(registry, h) # k /\ persistence_key(registry, h)' = k)
            => \E t \in Tasks :
                  /\ Steps(t) /\ task[t].pc = "register"
                  /\ task[t].ref = h /\ task[t].key = k
                  /\ task[t].op # "register"
                        => /\ persistence_key(registry, h) = NoKey
                           /\ task[t].spawns >= 1 /\ spawnedFor[h] = k]_vars

\* A direct register_persistent call moved actor 1 from the file key, for
\* which it was constructed, to the other key.
C13_Witness ==
    /\ last.pc = "done" /\ last.op = "register" /\ last.key = HttpKey
    /\ spawnedFor[1] = FileKey
    /\ persistence_key(registry, 1) = HttpKey
    /\ get_right(registry, FileKey) = NoHandle

\* ---------------------------------------------------------------- C14
\* C14: the registry keeps no actor alive and hands out no strong handle but
\* the one lookup returns: an actor with no strong handle left never becomes
\* alive again, whatever the registry holds; once the application drops the
\* handles of a registered actor that no call holds, the actor is dead and
\* its key resolves to nothing; register, key_for and save_snapshot leave the
\* application's handles as they were, and a lookup adds the handle it returns.
C14_RegistryHoldsWeakOnly ==
    [][/\ \A h \in Spawned : ~Alive(h) => ~Alive(h)'
       /\ \A h \in Handles, k \in Keys :
            (h \in ext /\ h \notin ext' /\ persistence_key(registry, h) = k
                /\ \A t \in Tasks : ~Holds(t, h))
               => /\ ~Alive(h)'
                  /\ get_right(registry, k)' = h
                  /\ lookup_persistent(registry, k)' = NoHandle
       /\ \A t \in Tasks :
            Steps(t) =>
               /\ task[t].op \in {"register", "key_for", "save"} => ext' = ext
               /\ (task[t].op = "lookup" /\ Returns(t))
                     => ext' = ext \cup Returned(last'.res)]_vars

\* A registered actor is dead, its entry is still there, and its key does not
\* resolve.
C14_Witness ==
    /\ last.pc = "done" /\ last.op = "spawn"
    /\ \E h \in Spawned :
          /\ ~Alive(h)
          /\ persistence_key(registry, h) = last.key
          /\ lookup_persistent(registry, last.key) = NoHandle

\* ---------------------------------------------------------------- C15
\* C15: when lookup(key) resolves at the start of respawn_persistent(key), the
\* call returns that handle, reads no storage, constructs no actor and leaves
\* the registry unchanged, whatever storage holds at key.
C15_RespawnFastPath ==
    [][\A t \in Tasks, k \in Keys, h \in Handles :
         (/\ Steps(t) /\ task[t].op \in {"respawn", "try"} /\ task[t].pc = "lookup"
          /\ task[t].key = k /\ lookup_persistent(registry, k) = h)
         => /\ Returns(t) /\ last'.res = OkRef(h)
            /\ last'.reads = 0 /\ last'.spawns = 0
            /\ registry' = registry /\ nextId' = nextId /\ fs' = fs
            /\ state' = state]_vars

\* respawn_persistent returned the live actor of a key whose path holds a
\* snapshot that differs from the actor's state.
C15_Witness ==
    /\ last.pc = "done" /\ last.op = "respawn" /\ last.key = FileKey
    /\ last.res.kind = "ok" /\ last.reads = 0 /\ last.spawns = 0
    /\ ValidSnapshotAt(fs, FileKey)
    /\ state[last.res.h] # SnapshotAt(fs, FileKey)

\* ---------------------------------------------------------------- C16
\* C16: respawn_persistent touches the registry only at its register step.
\* When its read fails (no directory, no payload file, unsupported scheme) or
\* the payload does not decode, the call returns that error at once, after one
\* read, having constructed no actor and with the registry as it was; when the
\* call is abandoned between the read and the spawn, no actor has been
\* constructed and the registry is as it was.
C16_RespawnFailsClean ==
    [][\A t \in Tasks, k \in Keys :
         (task[t].op = "respawn" /\ task[t].key = k)
         => /\ (Steps(t) /\ task[t].pc # "register")
                  => (registry' = registry /\ fs' = fs)
            /\ (Steps(t) /\ task[t].pc = "read" /\ ~ValidSnapshotAt(fs, k))
                  => /\ Returns(t)
                     /\ last'.res.kind = "err"
                     /\ last'.res.err =
                           IF scheme(k) # "file" THEN "UnsupportedScheme"
                           ELSE IF fs[k] = Absent THEN "NotExist"
                           ELSE IF fs[k] \in {PlainFile, EmptyDir} THEN "Io"
                           ELSE "Decode"
                     /\ last'.reads = 1 /\ last'.spawns = 0
                     /\ nextId' = nextId /\ state' = state /\ ext' = ext
            /\ Abandons(t)
                  => /\ last'.spawns = 0 /\ last'.res = NoRes
                     /\ registry' = registry /\ fs' = fs
                     /\ nextId' = nextId /\ state' = state /\ ext' = ext]_vars

\* A respawn_persistent was abandoned after it had read a valid snapshot: its
\* key has no entry and no actor was constructed for it.
C16_Witness ==
    /\ last.pc = "cancelled" /\ last.op = "respawn" /\ last.key = FileKey
    /\ last.reads = 1 /\ last.spawns = 0
    /\ ValidSnapshotAt(fs, FileKey)
    /\ get_right(registry, FileKey) = NoHandle
    /\ \A h \in Handles : spawnedFor[h] # FileKey

\* ---------------------------------------------------------------- C17
\* C17: the registry changes only in a register step. The termination of an
\* actor and every step of lookup, key_for and save_snapshot leave it as it
\* is, and the entry (k, h) goes only in a register step whose key is k or
\* whose handle is h.
C17_OnlyRegisterChangesRegistry ==
    [][/\ registry' # registry
            => \E t \in Tasks : Steps(t) /\ task[t].pc = "register"
       /\ \A h \in Handles : (h \in ext /\ h \notin ext') => registry' = registry
       /\ \A t \in Tasks :
            (Steps(t) /\ task[t].op \in {"lookup", "key_for", "save"})
               => registry' = registry
       /\ \A k \in Keys, h \in Handles :
            (get_right(registry, k) = h /\ get_right(registry, k)' # h)
               => \E t \in Tasks :
                     /\ Steps(t) /\ task[t].pc = "register"
                     /\ task[t].key = k \/ task[t].ref = h]_vars

\* After a save_snapshot of another actor, the entry of a terminated actor is
\* still in the registry.
C17_Witness ==
    /\ last.pc = "done" /\ last.op = "save"
    /\ \E h \in Spawned :
          /\ ~Alive(h)
          /\ persistence_key(registry, h) # NoKey
          /\ get_right(registry, persistence_key(registry, h)) = h

\* ---------------------------------------------------------------- C19
\* The order of the stages of a call.
StageRank(pc) ==
    CASE pc = "lookup" -> 1 [] pc = "read" -> 2 [] pc = "spawn" -> 3
      [] pc = "register" -> 4 [] OTHER -> 0

\* C19: a try_respawn_persistent call runs the recovery once and, exactly when
\* the recovery failed, spawn_persistent with the caller's args once. Every
\* step moves the call to a later stage, so no stage runs twice; the fallback
\* starts only at a failed read or decode and uses the caller's args; the call
\* returns after at most one read and one construction, with the handle of
\* the path that ran last.
C19_FallbackOnce ==
    [][\A t \in Tasks, k \in Keys :
         (Steps(t) /\ task[t].op = "try" /\ task[t].key = k)
         => /\ ~Returns(t)
                 => /\ StageRank(task'[t].pc) > StageRank(task[t].pc)
                    /\ task'[t].op = "try" /\ task'[t].dflt = task[t].dflt
                    /\ task[t].stage = "fallback" => task'[t].stage = "fallback"
            /\ (task'[t].stage = "fallback" /\ task[t].stage # "fallback")
                 => /\ task[t].pc = "read" /\ ~ValidSnapshotAt(fs, k)
                    /\ task'[t].pc = "spawn" /\ task'[t].args = task[t].dflt
                    /\ task'[t].lastErr # "" /\ task'[t].spawns = 0
            /\ (task[t].pc = "read" /\ ValidSnapshotAt(fs, k))
                 => task'[t].stage = "recover"
            /\ Returns(t)
                 => /\ last'.reads <= 1 /\ last'.spawns <= 1
                    /\ last'.lastErr # "" <=> task[t].stage = "fallback"
                    /\ task[t].stage = "fallback"
                          => /\ last'.reads = 1 /\ last'.spawns = 1
                             /\ last'.res = OkRef(task[t].ref)
                             /\ state'[task[t].ref] = ActorFromArgs(task[t].dflt)
                    /\ task[t].stage = "recover"
                          => /\ last'.reads = last'.spawns
                             /\ last'.spawns = 1 => last'.res = OkRef(task[t].ref)]_vars

\* try_respawn_persistent returned the actor of its fallback, built from the
\* caller's args after one failed read of a directory without payload.
C19_Witness ==
    /\ last.pc = "done" /\ last.op = "try" /\ last.key = FileKey
    /\ last.lastErr = "Io" /\ last.reads = 1 /\ last.spawns = 1
    /\ last.res.kind = "ok" /\ last.res.h \in Spawned
    /\ state[last.res.h] = <<Char>>
    /\ fs[FileKey] = EmptyDir

\* ---------------------------------------------------------------- C20
\* C20: every write that save_snapshot makes at key k carries the snapshot of
\* the actor registered under k at the moment of the write: an actor that has
\* lost k to another registration does not overwrite the payload at k.
C20_WriterOwnsKey ==
    [][\A t \in Tasks, k \in Keys, h \in Handles :
         (/\ Steps(t) /\ task[t].op = "save" /\ task[t].pc = "write"
          /\ task[t].wkey = k /\ task[t].ref = h
          /\ fs' # fs)
         => get_right(registry, k) = h]_vars

\* ---------------------------------------------------------------- C18
\* C18: at every point of every interleaving of register, lookup, key_for,
\* spawn_persistent, respawn_persistent, try_respawn_persistent and
\* save_snapshot calls on the two actor types, each task holds at most one
\* registry lock, holds it only while it is at the map access or at the
\* release that follows, so never at a storage read or write nor at an actor
\* construction, and as long as some call is unfinished some task can take
\* its next instruction: there is no deadlock.
C18_LockDiscipline ==
    /\ \A t \in Tasks :
          /\ Cardinality(Held(t)) <= 1
          /\ Held(t) # {}
                => /\ pending[t] # <<>>
                   /\ Head(pending[t]).i \in {"map", "unlock"}
                   /\ Head(pending[t]).ty \in Held(t)
          /\ (At(t, "io") \/ At(t, "construct") \/ At(t, "read") \/ At(t, "write"))
                => Held(t) = {}
    /\ \A T \in ActorTypes : rwlock[T].w # 0 => rwlock[T].r = {}
    /\ (\E t \in Tasks : pending[t] # <<>>) => ENABLED (\E t \in Tasks : LockStep(t))

\* A call that constructs a ManagerActor, and so has still to register it,
\* waits in the actor's start-up for the read lock of SubActor's registry,
\* which another task holds for writing.
C18_Witness ==
    \E t \in Tasks, u \in Tasks :
       /\ t # u
       /\ At(t, "read") /\ Head(pending[t]).ty = "Sub"
       /\ pending[t][Len(pending[t])] = Ins("unlock", "Manager")
       /\ rwlock["Sub"].w = u
       /\ ~ENABLED LockStep(t)

\* ---------------------------------------------------------------- C21
\* C21: an actor that spawn_persistent has constructed, and that is therefore
\* running, is registered under the call's key: in no state does the call hold
\* a constructed actor whose handle has no key yet.
C21_RegisteredWhileRunning ==
    \A t \in Tasks, h \in Spawned :
       (task[t].op \in {"spawn", "respawn", "try"} /\ Holds(t, h))
          => persistence_key(registry, h) = task[t].key

====
